---- MODULE Spec2Model ----
(***************************************************************************)
(* Multi-account configuration and OAuth token lifecycle of gmail_client.py *)
(* (config.toml registry, GmailClient construction, authenticate, main).    *)
(***************************************************************************)
EXTENDS Integers, Sequences, FiniteSets, TLC

\* ------------------------------------------------------------------ bounds
\* Number of times the provider may replace the token kept in one file.
MaxGen == 1

\* ------------------------------------------------------------- value sets
Names == {"default", "work"}
None == "none"
Emails == {"me@x"}

SKILL_DIR == "/skill"
RelPaths == {"tokens/default.json", "tokens/work.json"}
AbsPaths == {"/abs/t.json"}
\* Files a token may live in: (directory prefix, path as written in the config).
TokenFiles == ({SKILL_DIR} \X RelPaths) \cup ({""} \X AbsPaths)

ScopeModify == <<"https://www.googleapis.com/auth/gmail.modify">>

\* f"tokens/{name}.json"
DefaultTokenPath(name) ==
    IF name = "default" THEN "tokens/default.json" ELSE "tokens/work.json"

\* os.path.isabs
IsAbs(p) == p \in AbsPaths

\* token_path resolved relative to the skill directory unless absolute
ResolveTokenPath(p) == IF IsAbs(p) THEN <<"", p>> ELSE <<SKILL_DIR, p>>

\* os.path.dirname of a resolved token path
Dirname(f) == IF f[1] = SKILL_DIR THEN "/skill/tokens" ELSE "/abs"

\* An account table of config.toml; a missing key is None.
Entry == [email : {None} \cup Emails, token_path : {None} \cup RelPaths \cup AbsPaths]

EmptyAccounts == [n \in {} |-> [email |-> None, token_path |-> None]]

\* The document held by config.toml: [gmail] scopes / default_account and
\* the [accounts.*] tables (hasAccounts: the accounts key is present).
Docs ==
    { d \in [scopes : {ScopeModify}, default_account : {None} \cup Names,
             hasAccounts : BOOLEAN,
             accounts : UNION {[D -> Entry] : D \in SUBSET Names}] :
        ~d.hasAccounts => d.accounts = EmptyAccounts }

\* Content of cfg while config.toml does not exist.
NoDoc == [scopes |-> ScopeModify, default_account |-> None,
          hasAccounts |-> FALSE, accounts |-> EmptyAccounts]

\* Credentials (token material); some = FALSE is Python's None / no file.
NoCreds == [some |-> FALSE, expired |-> FALSE, refresh_token |-> FALSE, gen |-> 0]
CredsOf(exp, rt, g) == [some |-> TRUE, expired |-> exp, refresh_token |-> rt, gen |-> g]

\* google.oauth2 Credentials.valid: a token that is present and not expired
Valid(c) == c.some /\ ~c.expired

\* ------------------------------------------------- config.toml operations
\* ensure_account(name): result, document left on disk, whether it was written
EnsureAccountDropsEmail(exists, doc, name) ==
    IF ~exists THEN [ret |-> FALSE, doc |-> doc, wrote |-> FALSE, msg |-> "error"]
    ELSE [ret |-> TRUE,
          doc |-> [doc EXCEPT !.hasAccounts = TRUE,
                     !.accounts = [n \in DOMAIN doc.accounts \cup {name} |->
                        IF n = name
                        THEN [email |-> None, token_path |-> DefaultTokenPath(name)]
                        ELSE doc.accounts[n]]],
          wrote |-> TRUE, msg |-> "added"]

EnsureAccountNoAdd(exists, doc, name) ==
    IF ~exists THEN [ret |-> FALSE, doc |-> doc, wrote |-> FALSE, msg |-> "error"]
    ELSE [ret |-> TRUE, doc |-> doc, wrote |-> FALSE, msg |-> "exists"]

EnsureAccountCreatesFile(exists, doc, name) ==
    IF name \in DOMAIN doc.accounts
    THEN [ret |-> TRUE, doc |-> doc, wrote |-> FALSE, msg |-> "exists"]
    ELSE [ret |-> TRUE,
          doc |-> [doc EXCEPT !.hasAccounts = TRUE,
                     !.accounts = [n \in DOMAIN doc.accounts \cup {name} |->
                        IF n = name
                        THEN [email |-> None, token_path |-> DefaultTokenPath(name)]
                        ELSE doc.accounts[n]]],
          wrote |-> TRUE, msg |-> "added"]

EnsureAccountOp(exists, doc, name) ==
    IF ~exists THEN [ret |-> FALSE, doc |-> doc, wrote |-> FALSE, msg |-> "error"]
    ELSE IF name \in DOMAIN doc.accounts
    THEN [ret |-> TRUE, doc |-> doc, wrote |-> FALSE, msg |-> "exists"]
    ELSE [ret |-> TRUE,
          doc |-> [doc EXCEPT !.hasAccounts = TRUE,
                     !.accounts = [n \in DOMAIN doc.accounts \cup {name} |->
                        IF n = name
                        THEN [email |-> None, token_path |-> DefaultTokenPath(name)]
                        ELSE doc.accounts[n]]],
          wrote |-> TRUE, msg |-> "added"]

\* set_default_account(name)
SetDefaultUnchecked(exists, doc, name) ==
    IF ~exists THEN [ret |-> FALSE, doc |-> doc, wrote |-> FALSE, msg |-> "error"]
    ELSE [ret |-> TRUE, doc |-> [doc EXCEPT !.default_account = name],
          wrote |-> TRUE, msg |-> "set"]

SetDefaultAccountOp(exists, doc, name) ==
    IF ~exists THEN [ret |-> FALSE, doc |-> doc, wrote |-> FALSE, msg |-> "error"]
    ELSE IF name \notin DOMAIN doc.accounts
    THEN [ret |-> FALSE, doc |-> doc, wrote |-> FALSE, msg |-> "not_found"]
    ELSE [ret |-> TRUE, doc |-> [doc EXCEPT !.default_account = name],
          wrote |-> TRUE, msg |-> "set"]

\* remove_account(name); it returns nothing, ret records "did not raise"
RemoveAccountKeepsEntry(exists, doc, name) ==
    IF ~exists THEN [ret |-> TRUE, doc |-> doc, wrote |-> FALSE, msg |-> "error"]
    ELSE IF ~doc.hasAccounts \/ name \notin DOMAIN doc.accounts
    THEN [ret |-> TRUE, doc |-> doc, wrote |-> FALSE, msg |-> "not_found"]
    ELSE [ret |-> TRUE, doc |-> doc, wrote |-> TRUE, msg |-> "removed"]

RemoveAccountOp(exists, doc, name) ==
    IF ~exists THEN [ret |-> TRUE, doc |-> doc, wrote |-> FALSE, msg |-> "error"]
    ELSE IF ~doc.hasAccounts \/ name \notin DOMAIN doc.accounts
    THEN [ret |-> TRUE, doc |-> doc, wrote |-> FALSE, msg |-> "not_found"]
    ELSE [ret |-> TRUE,
          doc |-> [doc EXCEPT !.accounts =
                     [n \in DOMAIN doc.accounts \ {name} |-> doc.accounts[n]]],
          wrote |-> TRUE, msg |-> "removed"]

\* get_available_accounts(): the accounts mapping, {} on any read error
GetAvailableAccounts(exists, doc) == IF exists THEN doc.accounts ELSE EmptyAccounts

\* GmailClient._load_config: the parsed file, or the built-in default
DefaultConfigEmptyAccounts ==
    [scopes |-> ScopeModify, default_account |-> "default",
     hasAccounts |-> TRUE, accounts |-> EmptyAccounts]

DefaultConfig ==
    [scopes |-> ScopeModify, default_account |-> "default",
     hasAccounts |-> TRUE,
     accounts |-> [n \in {"default"} |->
                     [email |-> None, token_path |-> "tokens/default.json"]]]

LoadConfig(exists, doc) == IF exists THEN doc ELSE DefaultConfig

\* ------------------------------------------------------- GmailClient()
NoClient ==
    [some |-> FALSE, account_name |-> None,
     account_config |-> [email |-> None, token_path |-> None],
     token_path |-> <<"", "/abs/t.json">>, account_email |-> None,
     credentials_path |-> "default", scopes |-> ScopeModify,
     config |-> NoDoc, creds |-> NoCreds, service |-> FALSE]

\* os.getenv("GMAIL_CREDENTIALS_PATH", DEFAULT_CREDENTIALS_PATH)
CredentialsPath(env) == IF env THEN "env" ELSE "default"

\* account or config["gmail"].get("default_account", "default")
AccountNameIgnoresDefault(account, config) ==
    IF account # None THEN account ELSE "default"

AccountName(account, config) ==
    IF account # None THEN account
    ELSE IF config.default_account # None THEN config.default_account
    ELSE "default"

\* list(accounts.keys()) in the ValueError message
ListedNamesOmitsDefault(accounts) == DOMAIN accounts \ {"default"}

ListedNames(accounts) == DOMAIN accounts

\* GmailClient.__init__(account): ok = FALSE is the ValueError, whose message
\* lists the configured names (listed)
NewClientOp(exists, doc, env, account) ==
    LET config == LoadConfig(exists, doc)
        name == AccountName(account, config)
        accounts == config.accounts
    IN  IF name \notin DOMAIN accounts
        THEN [ok |-> FALSE, listed |-> ListedNames(accounts), client |-> NoClient]
        ELSE LET tp == IF accounts[name].token_path # None
                       THEN accounts[name].token_path
                       ELSE DefaultTokenPath(name)
             IN [ok |-> TRUE, listed |-> {},
                 client |-> [some |-> TRUE, account_name |-> name,
                             account_config |-> accounts[name],
                             token_path |-> ResolveTokenPath(tp),
                             account_email |-> accounts[name].email,
                             credentials_path |-> CredentialsPath(env),
                             scopes |-> config.scopes, config |-> config,
                             creds |-> NoCreds, service |-> FALSE]]

\* ------------------------------------------------------------------ state
VARIABLES
    cfgExists,    \* config.toml exists
    cfg,          \* its document (NoDoc while it does not exist)
    tokens,       \* token file contents, NoCreds where no file exists
    dirs,         \* token directories that exist
    credFiles,    \* client-secret files that exist, among "default" and "env"
    envCred,      \* GMAIL_CREDENTIALS_PATH is set (it names the "env" file)
    pc,           \* position of the running invocation
    inMain,       \* authenticate was called by main's --auth branch
    client,       \* the GmailClient instance of the invocation
    auth,         \* bookkeeping of the current / last authenticate() call
    last,         \* the last finished operation
    prev,         \* the operation before it
    preCfg,       \* cfgExists and cfg as they were before the last operation
    everAuth,     \* some authenticate() has succeeded
    printed,      \* what main's --auth branch printed last
    status,       \* what the last check_setup() returned
    cmd,          \* the email_cli.py command of the running invocation
    args,         \* its parsed arguments
    cpc,          \* its position: "idle", a call site, or "done"
    stdout,       \* the documents printed to standard output, in order
    stderr,       \* how many lines went to standard error
    uncaught,     \* an exception left the command function
    apiErrors,    \* how many command-level provider calls raised
    msgs_to_trash,\* cmd_cleanup: how many message ids were collected
    msgs,         \* download commands: the fetched messages, each a list of parts
    pos,          \* download commands: <<message, part>> being processed
    downloaded,   \* download commands: the per-attachment result list
    attempts,     \* download commands: the attachments().get calls made so far
    disk,         \* files in the output directory
    disk0,        \* the output directory when the invocation started
    procs,        \* concurrent invocations: each one's operation, position and loaded document
    bop,          \* the batching routine that is running
    bids,         \* its input: the message ids, in order
    bi,           \* how many ids its loop has consumed
    batch,        \* the requests added to the current batch object
    executed,     \* the batches sent so far, one per round trip
    bfailed,      \* how many batch.execute() calls raised
    bpc           \* "idle", "loop" or "done"

gmailVars == <<cfgExists, cfg, tokens, dirs, credFiles, envCred, pc, inMain,
               client, auth, last, prev, preCfg, everAuth, printed, status>>

cliVars == <<cmd, args, cpc, stdout, stderr, uncaught, apiErrors, msgs_to_trash,
             msgs, pos, downloaded, attempts, disk, disk0>>

raceVars == <<procs>>

batchVars == <<bop, bids, bi, batch, executed, bfailed, bpc>>

auxVars == <<raceVars, batchVars>>

vars == <<gmailVars, cliVars, auxVars>>

fileVars == <<cfgExists, cfg, tokens, dirs, credFiles, envCred>>

NoOp == [op |-> "none", name |-> None, ret |-> FALSE, wrote |-> FALSE, msg |-> "none",
         listed |-> {}]
Short(o) == [op |-> o.op, name |-> o.name, ret |-> o.ret]

NoAuth ==
    [loaded |-> NoCreds, preToken |-> NoCreds, refreshes |-> 0, refreshFailed |-> FALSE,
     consents |-> 0, tokenWrites |-> 0, cfgWrites |-> 0, fetches |-> 0,
     preDoc |-> NoDoc, outcome |-> "none"]

\* --------------------------------------------------------- check_setup()
NoStatus ==
    [done |-> FALSE, config_exists |-> FALSE, credentials_exists |-> FALSE,
     accounts |-> {}, ready |-> FALSE]

SetupTokenFileDefaultOnly(name, info) == ResolveTokenPath(DefaultTokenPath(name))

\* The token file check_setup() looks for: info.get("token_path",
\* f"tokens/{name}.json"), joined to SKILL_DIR unless absolute
SetupTokenFile(name, info) ==
    ResolveTokenPath(IF info.token_path # None THEN info.token_path
                     ELSE DefaultTokenPath(name))

\* status["accounts"]: one item per table of the file read by check_setup
SetupAccountsOfLoadConfig(exists, doc, toks) ==
    LET accounts == LoadConfig(exists, doc).accounts IN
    { [name |-> n, email |-> accounts[n].email,
       authenticated |-> toks[SetupTokenFile(n, accounts[n])].some] :
         n \in DOMAIN accounts }

SetupAccounts(exists, doc, toks) ==
    IF ~exists THEN {}
    ELSE { [name |-> n, email |-> doc.accounts[n].email,
            authenticated |-> toks[SetupTokenFile(n, doc.accounts[n])].some] :
              n \in DOMAIN doc.accounts }

\* status["ready"]
ReadyIgnoresCredentials(credentials_exists, accounts) ==
    \E a \in accounts : a.authenticated

Ready(credentials_exists, accounts) ==
    credentials_exists /\ \E a \in accounts : a.authenticated

\* check_setup(): it looks at DEFAULT_CREDENTIALS_PATH, whatever the environment
CheckSetupOp(exists, doc, toks, creds) ==
    LET accounts == SetupAccounts(exists, doc, toks)
        credentials_exists == "default" \in creds
    IN [done |-> TRUE, config_exists |-> exists,
        credentials_exists |-> credentials_exists,
        accounts |-> accounts, ready |-> Ready(credentials_exists, accounts)]

\* ------------------------------------------- email_cli.py: pure parts
MaxParts == 2      \* parts of one message
MaxMsgs == 1       \* messages one search returns
MaxPages == 2      \* result pages cmd_cleanup walks

FileNames == {"a.pdf", "b.pdf"}

\* A MIME part (nested parts flattened in traversal order): an attachment has
\* a filename and a body.attachmentId, a body part has neither.
Parts == [filename : FileNames, attachmentId : {TRUE}]
           \cup {[filename |-> "", attachmentId |-> FALSE]}

RECURSIVE SeqsUpTo(_, _)
SeqsUpTo(S, n) ==
    IF n = 0 THEN {<<>>}
    ELSE LET shorter == SeqsUpTo(S, n - 1) IN
           shorter \cup {Append(q, x) : q \in {r \in shorter : Len(r) = n - 1}, x \in S}

Messages == SeqsUpTo(Parts, MaxParts)

\* --filename of cmd_download: args.filename.lower() in filename.lower()
FilenameFilters == {None, "a"}
FilterMatches(flt, filename) ==
    \/ flt = None
    \/ flt = "a" /\ filename = "a.pdf"

NoArgs == [ids |-> "empty", create |-> FALSE, criteria |-> FALSE, add_label |-> FALSE,
           action |-> FALSE, filename |-> None]

\* One printed JSON document. status None: the document has no status key;
\* account None: it has no account key.
Doc(st, message, account, count, dl) ==
    [status |-> st, message |-> message, account |-> account, count |-> count,
     downloaded |-> dl]

\* output_error(message, account)
OutputError(out, message, account) ==
    Append(out, Doc("error", message, account, 0, <<>>))

\* output_success(data, account)
OutputSuccess(out, count, dl, account) ==
    Append(out, Doc("success", "", account, count, dl))

\* print(json.dumps({..., "account": client.account_email}))
PrintJson(out, st, message, account, count) ==
    Append(out, Doc(st, message, account, count, <<>>))

\* The path an attachment is saved under: the plain name, else the first
\* name_1, name_2, ... that does not exist
FreePath(d, f) ==
    <<f, CHOOSE k \in 0..Cardinality(d) :
            /\ <<f, k>> \notin d
            /\ \A j \in 0..(k - 1) : <<f, j>> \in d>>

\* downloaded.append({...}) of the two branches of the inner try
SavedEntry(filename, path) == [filename |-> filename, saved_as |-> path, error |-> None]
ErrorEntry(filename) == [filename |-> filename, saved_as |-> <<None, 0>>, error |-> "str(e)"]

HasSavedAs(d) == d.error = None

\* len([d for d in downloaded if "saved_as" in d])
SavedCountOfAll(dl) == Len(dl)

SavedCount(dl) == Cardinality({i \in 1..Len(dl) : HasSavedAs(dl[i])})

\* if filename and attachment_id: (and the --filename filter of cmd_download)
Eligible(part, flt) ==
    part.filename # "" /\ part.attachmentId /\ FilterMatches(flt, part.filename)

\* ------------------------------------------------------------------- Init
\* Documents a user may have written by hand before the first invocation.
InitEntries(n) ==
    { [email |-> e, token_path |-> t] :
        e \in {None} \cup Emails, t \in {None, DefaultTokenPath(n)} }

InitDocs ==
    { d \in Docs :
        /\ \A n \in DOMAIN d.accounts : d.accounts[n] \in InitEntries(n)
        /\ "work" \in DOMAIN d.accounts => d.accounts["work"].email = None }

\* Token files left by earlier runs: the default account's file may hold a
\* valid token, an expired one with a refresh token, or an expired one without.
InitTokens ==
    { [f \in TokenFiles |-> IF f = <<SKILL_DIR, "tokens/default.json">> THEN c ELSE NoCreds] :
        c \in {NoCreds, CredsOf(FALSE, TRUE, 0), CredsOf(TRUE, TRUE, 0),
                CredsOf(TRUE, FALSE, 0)} }

\* ---------------------------------------- concurrent invocations: pure parts
Procs == {"p1", "p2"}

IdleProc == [op |-> "none", name |-> None, email |-> None, at |-> "idle",
             doc |-> NoDoc, ret |-> FALSE, wrote |-> FALSE]

\* ------------------------------------------------- batching: pure parts
MaxIds == 101      \* longest id list

\* chunk_size of cmd_list; the literal 50 of batch_message_operation and
\* cmd_cleanup
chunk_size == 50

\* if i % 50 == 0 or i == len(ids):
FlushOnlyFull(i, n) == i % chunk_size = 0

Flush(i, n) == i % chunk_size = 0 \/ i = n

Min(a, b) == IF a <= b THEN a ELSE b

\* all_msgs[i : i + chunk_size]
Chunk(all, i) == SubSeq(all, i + 1, Min(i + chunk_size, Len(all)))

\* Neither the race nor the batching model has started
AuxIdle ==
    /\ procs = [p \in Procs |-> IdleProc]
    /\ bop = "none" /\ bids = <<>> /\ bi = 0 /\ batch = <<>> /\ executed = <<>>
    /\ bfailed = 0 /\ bpc = "idle"

\* No email_cli.py command has run
CliIdle ==
    /\ cmd = "none" /\ args = NoArgs /\ cpc = "idle"
    /\ stdout = <<>> /\ stderr = 0 /\ uncaught = FALSE /\ apiErrors = 0
    /\ msgs_to_trash = 0 /\ msgs = <<>> /\ pos = <<0, 0>>
    /\ downloaded = <<>> /\ attempts = <<>> /\ disk = {} /\ disk0 = {}

Init ==
    /\ cfgExists \in BOOLEAN
    /\ cfg \in (IF cfgExists THEN InitDocs ELSE {NoDoc})
    /\ tokens \in InitTokens
    /\ dirs = {Dirname(f) : f \in {g \in TokenFiles : tokens[g].some}}
    /\ envCred = FALSE
    /\ credFiles \in {{}, {"default"}}
    /\ pc = "idle"
    /\ inMain = FALSE
    /\ client = NoClient
    /\ auth = NoAuth
    /\ last = NoOp
    /\ prev = Short(NoOp)
    /\ preCfg = [exists |-> cfgExists, doc |-> cfg]
    /\ everAuth = FALSE
    /\ printed = None
    /\ status = NoStatus
    /\ CliIdle
    /\ AuxIdle

\* ------------------------------------------------- registry operations
\* One call of a config.toml mutator r == Op(cfgExists, cfg, n), finished.
ConfigCall(opname, n, r) ==
    /\ pc = "idle"
    /\ cfg' = (IF r.wrote THEN r.doc ELSE cfg)
    /\ cfgExists' = (cfgExists \/ r.wrote)
    /\ preCfg' = [exists |-> cfgExists, doc |-> cfg]
    /\ prev' = Short(last)
    /\ last' = [op |-> opname, name |-> n, ret |-> r.ret, wrote |-> r.wrote, msg |-> r.msg,
                listed |-> {}]
    /\ inMain' = FALSE
    /\ client' = NoClient
    /\ auth' = NoAuth
    /\ printed' = None
    /\ status' = NoStatus
    /\ UNCHANGED <<tokens, dirs, credFiles, envCred, pc, everAuth>>
    /\ UNCHANGED <<cliVars, auxVars>>

EnsureAccount(n) == ConfigCall("ensure_account", n, EnsureAccountOp(cfgExists, cfg, n))

SetDefaultAccount(n) ==
    ConfigCall("set_default_account", n, SetDefaultAccountOp(cfgExists, cfg, n))

RemoveAccount(n) == ConfigCall("remove_account", n, RemoveAccountOp(cfgExists, cfg, n))

\* main(), --check: print(json.dumps(check_setup(), indent=2))
CheckSetup ==
    /\ pc = "idle"
    /\ status' = CheckSetupOp(cfgExists, cfg, tokens, credFiles)
    /\ preCfg' = [exists |-> cfgExists, doc |-> cfg]
    /\ prev' = Short(last)
    /\ last' = [op |-> "check_setup", name |-> None, ret |-> TRUE, wrote |-> FALSE,
                msg |-> "status", listed |-> {}]
    /\ inMain' = FALSE
    /\ client' = NoClient
    /\ auth' = NoAuth
    /\ printed' = None
    /\ UNCHANGED <<fileVars, pc, everAuth>>
    /\ UNCHANGED <<cliVars, auxVars>>

\* ------------------------------------------------ obtaining a client
\* get_client(account) of email_cli.py, first half: GmailClient(account=account).
\* A ValueError leaves the invocation; otherwise authenticate() follows.
GetClient(account) ==
    /\ pc = "idle"
    /\ LET r == NewClientOp(cfgExists, cfg, envCred, account) IN
         /\ r.ok => tokens[r.client.token_path].gen < MaxGen
         /\ client' = r.client
         /\ pc' = (IF r.ok THEN "auth_load" ELSE "idle")
         /\ last' = [op |-> "client", name |-> account, ret |-> r.ok, wrote |-> FALSE,
                     msg |-> IF r.ok THEN "ok" ELSE "ValueError", listed |-> r.listed]
    /\ prev' = Short(last)
    /\ preCfg' = [exists |-> cfgExists, doc |-> cfg]
    /\ inMain' = FALSE
    /\ auth' = NoAuth
    /\ printed' = None
    /\ status' = NoStatus
    /\ UNCHANGED <<fileVars, everAuth>>
    /\ UNCHANGED <<cliVars, auxVars>>

\* main(), --auth NAME: ensure_account(name), return if it failed
MainAuthEnsure(n) ==
    /\ pc = "idle"
    /\ LET r == EnsureAccountOp(cfgExists, cfg, n) IN
         /\ cfg' = (IF r.wrote THEN r.doc ELSE cfg)
         /\ cfgExists' = (cfgExists \/ r.wrote)
         /\ last' = [op |-> "ensure_account", name |-> n, ret |-> r.ret,
                     wrote |-> r.wrote, msg |-> r.msg, listed |-> {}]
         /\ pc' = (IF r.ret THEN "main_construct" ELSE "idle")
    /\ prev' = Short(last)
    /\ preCfg' = [exists |-> cfgExists, doc |-> cfg]
    /\ inMain' = TRUE
    /\ client' = NoClient
    /\ auth' = NoAuth
    /\ printed' = None
    /\ status' = NoStatus
    /\ UNCHANGED <<tokens, dirs, credFiles, envCred, everAuth>>
    /\ UNCHANGED <<cliVars, auxVars>>

\* main(), --auth NAME: client = GmailClient(account=name) inside try/except
MainAuthConstruct ==
    /\ pc = "main_construct"
    /\ LET r == NewClientOp(cfgExists, cfg, envCred, last.name) IN
         /\ r.ok => tokens[r.client.token_path].gen < MaxGen
         /\ client' = r.client
         /\ pc' = (IF r.ok THEN "auth_load" ELSE "idle")
         /\ printed' = (IF r.ok THEN printed ELSE "Error")
    /\ UNCHANGED <<fileVars, inMain, status, auth, last, prev, preCfg, everAuth>>
    /\ UNCHANGED <<cliVars, auxVars>>

\* --------------------------------------------------------- authenticate()
\* Where authenticate() goes after loading the token file (lines 118-119).
AfterLoadAlwaysSaves(c) ==
    IF ~c.some \/ ~Valid(c)
    THEN IF c.some /\ c.expired /\ c.refresh_token THEN "auth_refresh" ELSE "auth_creds"
    ELSE "auth_save"

AfterLoad(c) ==
    IF ~c.some \/ ~Valid(c)
    THEN IF c.some /\ c.expired /\ c.refresh_token THEN "auth_refresh" ELSE "auth_creds"
    ELSE "auth_build"

\* What refresh() leaves in self.creds: the refreshed token, or None when it raised
AfterRefreshKeepsStale(c, ok, g) == IF ok THEN CredsOf(FALSE, TRUE, g) ELSE c

AfterRefreshNoOp(c, ok, g) == IF ok THEN c ELSE NoCreds

AfterRefresh(c, ok, g) == IF ok THEN CredsOf(FALSE, TRUE, g) ELSE NoCreds

\* The "if not self.creds" block (lines 126-142): skip it, exit or run consent
AfterCredsCheckNoExit(c, path, files) ==
    IF c.some THEN "auth_save" ELSE "auth_consent"

AfterCredsCheck(c, path, files) ==
    IF c.some THEN "auth_save"
    ELSE IF path \notin files THEN "exit1" ELSE "auth_consent"

\* authenticate() ends with outcome o: "ok" returned, "raised" an exception
\* propagated (main catches and prints it), "exit1" is sys.exit(1).
Finish(o, a) ==
    /\ auth' = [a EXCEPT !.outcome = o]
    /\ pc' = (IF inMain /\ o = "ok" THEN "main_print" ELSE "idle")
    /\ printed' = (IF inMain /\ o = "raised" THEN "Error" ELSE printed)
    /\ prev' = Short(last)
    /\ last' = [op |-> "authenticate", name |-> client.account_name, ret |-> o = "ok",
                wrote |-> a.cfgWrites > 0, msg |-> o, listed |-> {}]
    /\ everAuth' = (everAuth \/ o = "ok")

\* makedirs, then load the token file if it exists
AuthLoad ==
    /\ pc = "auth_load"
    /\ dirs' = dirs \cup {Dirname(client.token_path)}
    /\ LET c == tokens[client.token_path] IN
         /\ client' = [client EXCEPT !.creds = c]
         /\ auth' = [NoAuth EXCEPT !.loaded = c, !.preToken = c, !.preDoc = cfg,
                                   !.outcome = "running"]
         /\ pc' = AfterLoad(c)
    /\ UNCHANGED <<cfgExists, cfg, tokens, credFiles, envCred, inMain, status, last,
                   prev, preCfg, everAuth, printed>>
    /\ UNCHANGED <<cliVars, auxVars>>

AuthRefreshRetries(ok) ==
    /\ pc = "auth_refresh"
    /\ client' = [client EXCEPT !.creds = AfterRefresh(client.creds, ok, auth.preToken.gen + 1)]
    /\ auth' = [auth EXCEPT !.refreshes = @ + 1, !.refreshFailed = ~ok]
    /\ pc' = (IF ok THEN "auth_creds" ELSE "auth_refresh")
    /\ UNCHANGED <<fileVars, inMain, status, last, prev, preCfg, everAuth, printed>>
    /\ UNCHANGED <<cliVars, auxVars>>

AuthRefreshClearsToken(ok) ==
    /\ pc = "auth_refresh"
    /\ client' = [client EXCEPT !.creds = AfterRefresh(client.creds, ok, auth.preToken.gen + 1)]
    /\ auth' = [auth EXCEPT !.refreshes = @ + 1, !.refreshFailed = ~ok]
    /\ pc' = "auth_creds"
    /\ tokens' = (IF ok THEN tokens ELSE [tokens EXCEPT ![client.token_path] = NoCreds])
    /\ UNCHANGED <<cfgExists, cfg, dirs, credFiles, envCred, inMain, status, last, prev,
                   preCfg, everAuth, printed>>
    /\ UNCHANGED <<cliVars, auxVars>>

\* self.creds.refresh(Request()) inside try/except Exception
AuthRefresh(ok) ==
    /\ pc = "auth_refresh"
    /\ client' = [client EXCEPT !.creds = AfterRefresh(client.creds, ok, auth.preToken.gen + 1)]
    /\ auth' = [auth EXCEPT !.refreshes = @ + 1, !.refreshFailed = ~ok]
    /\ pc' = "auth_creds"
    /\ UNCHANGED <<fileVars, inMain, status, last, prev, preCfg, everAuth, printed>>
    /\ UNCHANGED <<cliVars, auxVars>>

\* if not self.creds: exit when the client-secret file is missing
AuthCredsCheck ==
    /\ pc = "auth_creds"
    /\ LET nxt == AfterCredsCheck(client.creds, client.credentials_path, credFiles) IN
         IF nxt = "exit1"
         THEN /\ Finish("exit1", auth)
              /\ UNCHANGED <<fileVars, inMain, status, client, preCfg>>
         ELSE /\ pc' = nxt
              /\ UNCHANGED <<fileVars, inMain, status, client, auth, last, prev, preCfg,
                             everAuth, printed>>
    /\ UNCHANGED <<cliVars, auxVars>>

\* InstalledAppFlow...run_local_server(port=0): fresh credentials, or it raises
AuthConsent(ok) ==
    /\ pc = "auth_consent"
    /\ IF ok
       THEN /\ client' = [client EXCEPT !.creds = CredsOf(FALSE, TRUE, auth.preToken.gen + 1)]
            /\ auth' = [auth EXCEPT !.consents = @ + 1]
            /\ pc' = "auth_save"
            /\ UNCHANGED <<last, prev, everAuth, printed>>
       ELSE /\ Finish("raised", [auth EXCEPT !.consents = @ + 1])
            /\ UNCHANGED client
    /\ UNCHANGED <<fileVars, inMain, status, preCfg>>
    /\ UNCHANGED <<cliVars, auxVars>>

\* The token files after open(self.token_path, "w") and the write of c
SaveTokenWipesOthers(t, path, c) == [f \in DOMAIN t |-> IF f = path THEN c ELSE NoCreds]

SaveToken(t, path, c) == [t EXCEPT ![path] = c]

\* with open(self.token_path, "w"): token.write(self.creds.to_json())
AuthSave ==
    /\ pc = "auth_save"
    /\ tokens' = SaveToken(tokens, client.token_path, client.creds)
    /\ auth' = [auth EXCEPT !.tokenWrites = @ + 1]
    /\ pc' = "auth_build"
    /\ UNCHANGED <<cfgExists, cfg, dirs, credFiles, envCred, inMain, status, client,
                   last, prev, preCfg, everAuth, printed>>
    /\ UNCHANGED <<cliVars, auxVars>>

\* "if not self.account_email": the profile address is fetched only when unset
AlwaysFetchEmail(email) == TRUE

EmailUnset(email) == email = None

\* build("gmail", "v1", ...): HttpError exits the process
AuthBuild(ok) ==
    /\ pc = "auth_build"
    /\ IF ~ok
       THEN /\ Finish("exit1", auth)
            /\ UNCHANGED client
       ELSE /\ client' = [client EXCEPT !.service = TRUE]
            /\ IF EmailUnset(client.account_email)
               THEN /\ pc' = "auth_profile"
                    /\ UNCHANGED <<auth, last, prev, everAuth, printed>>
               ELSE Finish("ok", auth)
    /\ UNCHANGED <<fileVars, inMain, status, preCfg>>
    /\ UNCHANGED <<cliVars, auxVars>>

SaveEmailReplacesEntry(exists, doc, name, email) ==
    IF ~exists THEN [doc |-> doc, wrote |-> FALSE]
    ELSE [doc |-> [doc EXCEPT !.hasAccounts = TRUE,
                     !.accounts = [n \in DOMAIN doc.accounts \cup {name} |->
                        IF n = name THEN [email |-> email, token_path |-> None]
                        ELSE doc.accounts[n]]],
          wrote |-> TRUE]

SaveEmailCreatesFile(exists, doc, name, email) ==
    [doc |-> [doc EXCEPT !.hasAccounts = TRUE,
                !.accounts = [n \in DOMAIN doc.accounts \cup {name} |->
                   IF n = name
                   THEN [email |-> email,
                         token_path |-> IF n \in DOMAIN doc.accounts
                                        THEN doc.accounts[n].token_path ELSE None]
                   ELSE doc.accounts[n]]],
     wrote |-> TRUE]

\* _save_email_to_config(email): the document written, wrote = FALSE when the
\* file could not be opened (the exception is logged)
SaveEmailOp(exists, doc, name, email) ==
    IF ~exists THEN [doc |-> doc, wrote |-> FALSE]
    ELSE [doc |-> [doc EXCEPT !.hasAccounts = TRUE,
                     !.accounts = [n \in DOMAIN doc.accounts \cup {name} |->
                        IF n = name
                        THEN [email |-> email,
                              token_path |-> IF n \in DOMAIN doc.accounts
                                             THEN doc.accounts[n].token_path ELSE None]
                        ELSE doc.accounts[n]]],
          wrote |-> TRUE]

\* _update_account_email: getProfile returns an address, none, or raises
AuthProfile(res) ==
    /\ pc = "auth_profile"
    /\ IF res \in Emails
       THEN LET s == SaveEmailOp(cfgExists, cfg, client.account_name, res) IN
              /\ client' = [client EXCEPT !.account_email = res]
              /\ cfg' = (IF s.wrote THEN s.doc ELSE cfg)
              /\ cfgExists' = (cfgExists \/ s.wrote)
              /\ Finish("ok", [auth EXCEPT !.fetches = @ + 1,
                                           !.cfgWrites = IF s.wrote THEN @ + 1 ELSE @])
       ELSE /\ Finish("ok", [auth EXCEPT !.fetches = @ + 1])
            /\ UNCHANGED <<client, cfg, cfgExists>>
    /\ UNCHANGED <<tokens, dirs, credFiles, envCred, inMain, status, preCfg>>
    /\ UNCHANGED <<cliVars, auxVars>>

\* main(), --auth NAME: print(f"Authenticated: {client.account_email}")
MainPrint ==
    /\ pc = "main_print"
    /\ printed' = client.account_email
    /\ pc' = "idle"
    /\ UNCHANGED <<fileVars, inMain, status, client, auth, last, prev, preCfg, everAuth>>
    /\ UNCHANGED <<cliVars, auxVars>>

\* ------------------------------------------------------------ environment
\* Time passes between invocations: the access token stored in file f reaches
\* its expiry. The process that ran the last invocation is gone by then.
TokenExpires(f) ==
    /\ pc = "idle"
    /\ tokens[f].some /\ ~tokens[f].expired
    /\ tokens[f].gen < MaxGen
    /\ tokens' = [tokens EXCEPT ![f].expired = TRUE]
    /\ client' = NoClient
    /\ auth' = NoAuth
    /\ printed' = None
    /\ status' = NoStatus
    /\ UNCHANGED <<cfgExists, cfg, dirs, credFiles, envCred, pc, inMain, last, prev,
                   preCfg, everAuth>>
    /\ UNCHANGED <<cliVars, auxVars>>

\* ------------------------------------------- email_cli.py: commands
\* A new invocation: main() dispatches to args.func(args), whose first line is
\* client = get_client(args.account), here already returned.
Start(c, a) ==
    /\ pc = "idle" /\ client.service
    /\ cpc = "idle"
    /\ cmd' = c /\ args' = a
    /\ uncaught' = FALSE /\ apiErrors' = 0 /\ msgs_to_trash' = 0
    /\ pos' = <<0, 0>> /\ downloaded' = <<>> /\ attempts' = <<>>
    /\ UNCHANGED <<auxVars, gmailVars>>

NoFiles == disk' = {} /\ disk0' = {} /\ msgs' = <<>>

\* the command function returns after printing
Return(out) ==
    /\ stdout' = out
    /\ cpc' = "done"

\* a provider call outside any try block raises: the exception leaves the
\* command function and main(), the interpreter prints a traceback
Raise ==
    /\ uncaught' = TRUE
    /\ apiErrors' = apiErrors + 1
    /\ stderr' = stderr + 1
    /\ cpc' = "done"
    /\ UNCHANGED stdout

\* main() returns (or the traceback is printed) and the process ends; the next
\* invocation is a new process
Exit ==
    /\ cpc = "done"
    /\ cmd' = "none" /\ args' = NoArgs /\ cpc' = "idle"
    /\ stdout' = <<>> /\ stderr' = 0 /\ uncaught' = FALSE /\ apiErrors' = 0
    /\ msgs_to_trash' = 0 /\ msgs' = <<>> /\ pos' = <<0, 0>>
    /\ downloaded' = <<>> /\ attempts' = <<>> /\ disk' = {} /\ disk0' = {}
    /\ UNCHANGED <<auxVars, gmailVars>>

\* where a command continues once it holds a label id
AfterLabel(c) ==
    CASE c = "summary" -> "sum_list"
      [] c = "move" -> "mv_modify"
      [] OTHER -> "fa_create"

\* the caller's message when ensure_label returned None
NoLabelMessage(c) ==
    IF c = "move" THEN "Label not found" ELSE "Could not find or create label"

\* ensure_label(..., create=...): cmd_filters_add passes create=True
CreateFlag(c, a) == IF c = "move" THEN a.create ELSE c = "filters_add"

StartSummary ==
    /\ Start("summary", NoArgs)
    /\ cpc' = "labels_list" /\ stdout' = <<>> /\ stderr' = 0 /\ NoFiles

\* resolve_label -> _list_labels: labels().list().execute(), in no try block
LabelsList(res) ==
    /\ cpc = "labels_list"
    /\ CASE res = "raise" -> Raise
         [] res = "found" ->
              /\ cpc' = AfterLabel(cmd)
              /\ UNCHANGED <<stdout, stderr, uncaught, apiErrors>>
         [] OTHER ->
              /\ IF cmd = "summary"
                 THEN Return(OutputError(stdout, "not found", client.account_email))
                 ELSE IF CreateFlag(cmd, args)
                 THEN cpc' = "labels_create" /\ UNCHANGED stdout
                 ELSE Return(OutputError(stdout, NoLabelMessage(cmd), client.account_email))
              /\ UNCHANGED <<stderr, uncaught, apiErrors>>
    /\ UNCHANGED <<auxVars, gmailVars, cmd, args, msgs_to_trash, msgs, pos, downloaded, attempts,
                   disk, disk0>>

\* ensure_label: labels().create().execute() inside try; on failure it prints
\* output_error and returns None, and the caller prints its own output_error
LabelsCreate(ok) ==
    /\ cpc = "labels_create"
    /\ IF ok
       THEN /\ cpc' = AfterLabel(cmd)
            /\ UNCHANGED <<stdout, apiErrors>>
       ELSE /\ Return(OutputError(OutputError(stdout, "Failed to create label",
                                              client.account_email),
                                  NoLabelMessage(cmd), client.account_email))
            /\ apiErrors' = apiErrors + 1
    /\ UNCHANGED <<auxVars, gmailVars, cmd, args, stderr, uncaught, msgs_to_trash, msgs, pos,
                   downloaded, attempts, disk, disk0>>

\* cmd_summary: messages().list().execute(), in no try block
SummaryList(res) ==
    /\ cpc = "sum_list"
    /\ CASE res = "raise" -> Raise
         [] res = "empty" ->
              /\ Return(PrintJson(stdout, None, "", client.account_email, 0))
              /\ UNCHANGED <<stderr, uncaught, apiErrors>>
         [] OTHER ->
              /\ cpc' = "sum_batch"
              /\ UNCHANGED <<stdout, stderr, uncaught, apiErrors>>
    /\ UNCHANGED <<auxVars, gmailVars, cmd, args, msgs_to_trash, msgs, pos, downloaded, attempts,
                   disk, disk0>>

\* cmd_summary: batch.execute(), in no try block, then the result document
SummaryBatch(ok) ==
    /\ cpc = "sum_batch"
    /\ IF ok
       THEN /\ Return(PrintJson(stdout, None, "", client.account_email, 1))
            /\ UNCHANGED <<stderr, uncaught, apiErrors>>
       ELSE Raise
    /\ UNCHANGED <<auxVars, gmailVars, cmd, args, msgs_to_trash, msgs, pos, downloaded, attempts,
                   disk, disk0>>

\* cmd_cleanup up to the first "Searching ..." line on stderr
StartCleanup ==
    /\ Start("cleanup", NoArgs)
    /\ cpc' = "cl_list" /\ stdout' = <<>> /\ stderr' = 1 /\ NoFiles

\* cmd_cleanup: one page of messages().list().execute(), in no try block;
\* every non-empty page carries one message id
CleanupList(res) ==
    /\ cpc = "cl_list"
    /\ CASE res = "raise" -> Raise /\ UNCHANGED msgs_to_trash
         [] res = "more" ->
              /\ msgs_to_trash < MaxPages
              /\ msgs_to_trash' = msgs_to_trash + 1
              /\ UNCHANGED <<cpc, stdout, stderr, uncaught, apiErrors>>
         [] OTHER ->
              LET total == IF res = "last" THEN msgs_to_trash + 1 ELSE msgs_to_trash IN
              /\ msgs_to_trash' = total
              /\ IF total = 0
                 THEN /\ Return(PrintJson(stdout, "success", "No old emails found",
                                          client.account_email, 0))
                      /\ UNCHANGED stderr
                 ELSE /\ cpc' = "cl_batch"
                      /\ stderr' = stderr + 1
                      /\ UNCHANGED stdout
              /\ UNCHANGED <<uncaught, apiErrors>>
    /\ UNCHANGED <<auxVars, gmailVars, cmd, args, msgs, pos, downloaded, attempts, disk, disk0>>

\* cmd_cleanup: batch.execute() (one chunk of up to 50), in no try block
CleanupBatch(ok) ==
    /\ cpc = "cl_batch"
    /\ IF ok
       THEN /\ Return(PrintJson(stdout, "success", "", client.account_email, msgs_to_trash))
            /\ UNCHANGED <<stderr, uncaught, apiErrors>>
       ELSE Raise
    /\ UNCHANGED <<auxVars, gmailVars, cmd, args, msgs_to_trash, msgs, pos, downloaded, attempts,
                   disk, disk0>>

\* cmd_move up to ensure_label: parse_ids prints its JSON error on stderr and
\* returns [] for a malformed array; no ids prints a "skipped" document
StartMove(ids, create) ==
    /\ Start("move", [NoArgs EXCEPT !.ids = ids, !.create = create])
    /\ stderr' = (IF ids = "badjson" THEN 1 ELSE 0)
    /\ IF ids = "some"
       THEN cpc' = "labels_list" /\ stdout' = <<>>
       ELSE Return(PrintJson(<<>>, "skipped", "", client.account_email, 0))
    /\ NoFiles

\* cmd_move: messages().batchModify().execute() inside try/except
MoveModify(ok) ==
    /\ cpc = "mv_modify"
    /\ IF ok
       THEN /\ Return(OutputSuccess(stdout, 1, <<>>, client.account_email))
            /\ UNCHANGED apiErrors
       ELSE /\ Return(OutputError(stdout, "str(e)", client.account_email))
            /\ apiErrors' = apiErrors + 1
    /\ UNCHANGED <<auxVars, gmailVars, cmd, args, stderr, uncaught, msgs_to_trash, msgs, pos,
                   downloaded, attempts, disk, disk0>>

\* cmd_filters_add up to its first provider call
StartFiltersAdd(criteria, add_label, action) ==
    /\ Start("filters_add", [NoArgs EXCEPT !.criteria = criteria, !.add_label = add_label,
                                            !.action = action])
    /\ stderr' = 0
    /\ IF ~criteria
       THEN Return(OutputError(<<>>, "At least one criteria required", client.account_email))
       ELSE IF add_label
       THEN cpc' = "labels_list" /\ stdout' = <<>>
       ELSE IF ~action
       THEN Return(OutputError(<<>>, "At least one action required", client.account_email))
       ELSE cpc' = "fa_create" /\ stdout' = <<>>
    /\ NoFiles

\* cmd_filters_add: filters().create().execute() inside try/except
FiltersCreate(ok) ==
    /\ cpc = "fa_create"
    /\ IF ok
       THEN /\ Return(OutputSuccess(stdout, 0, <<>>, client.account_email))
            /\ UNCHANGED apiErrors
       ELSE /\ Return(OutputError(stdout, "str(e)", client.account_email))
            /\ apiErrors' = apiErrors + 1
    /\ UNCHANGED <<auxVars, gmailVars, cmd, args, stderr, uncaught, msgs_to_trash, msgs, pos,
                   downloaded, attempts, disk, disk0>>

\* The output directory as an invocation finds it
InitDisks == {{}, {<<"a.pdf", 0>>}}

\* cmd_download up to messages().get(); m is the message the provider holds,
\* flt the --filename argument, d0 the output directory
StartDownload ==
    /\ cpc = "idle"
    /\ \E m \in Messages, flt \in FilenameFilters, d0 \in InitDisks :
         /\ Start("download", [NoArgs EXCEPT !.filename = flt])
         /\ cpc' = "msg_get" /\ stdout' = <<>> /\ stderr' = 0
         /\ msgs' = <<m>> /\ disk' = d0 /\ disk0' = d0

\* cmd_search_download up to messages().list(), into a new output directory
StartSearchDownload ==
    /\ Start("search_download", NoArgs)
    /\ cpc' = "search_list" /\ stdout' = <<>> /\ stderr' = 0
    /\ NoFiles

\* What follows part pi of message mi: the next part, the next message, or
\* the result document
NextPos(ms, mi, pi) ==
    IF pi < Len(ms[mi]) THEN [at |-> "part", pos |-> <<mi, pi + 1>>]
    ELSE IF mi < Len(ms) THEN [at |-> "msg_get", pos |-> <<mi + 1, 0>>]
    ELSE [at |-> "output", pos |-> <<mi, pi>>]

\* Continue at n; at the end print output_success({... "downloaded": dl,
\* "count" / "total_downloaded": ...})
Continue(n, dl) ==
    /\ pos' = n.pos
    /\ IF n.at = "output"
       THEN Return(OutputSuccess(stdout, SavedCount(dl), dl, client.account_email))
       ELSE cpc' = n.at /\ UNCHANGED stdout

\* cmd_search_download: messages().list().execute() inside the outer try;
\* ms are the messages the query matches
SearchList(ok) ==
    /\ cpc = "search_list"
    /\ IF ~ok
       THEN /\ Return(OutputError(stdout, "str(e)", client.account_email))
            /\ apiErrors' = apiErrors + 1
            /\ UNCHANGED <<msgs, pos>>
       ELSE /\ \E ms \in SeqsUpTo(Messages, MaxMsgs) :
                 /\ msgs' = ms
                 /\ IF ms = <<>>
                    THEN Return(OutputSuccess(stdout, 0, <<>>, client.account_email))
                         /\ UNCHANGED pos
                    ELSE cpc' = "msg_get" /\ pos' = <<1, 0>> /\ UNCHANGED stdout
            /\ UNCHANGED apiErrors
    /\ UNCHANGED <<auxVars, gmailVars, cmd, args, stderr, uncaught, msgs_to_trash, downloaded,
                   attempts, disk, disk0>>

\* messages().get(format="full").execute() of the current message, inside the
\* outer try of either download command
MessageGet(ok) ==
    /\ cpc = "msg_get"
    /\ LET mi == IF cmd = "download" THEN 1 ELSE pos[1] IN
       IF ~ok
       THEN /\ Return(OutputError(stdout, "str(e)", client.account_email))
            /\ apiErrors' = apiErrors + 1
            /\ UNCHANGED pos
       ELSE /\ Continue(NextPos(msgs, mi, 0), downloaded)
            /\ UNCHANGED apiErrors
    /\ UNCHANGED <<auxVars, gmailVars, cmd, args, stderr, uncaught, msgs_to_trash, msgs, downloaded,
                   attempts, disk, disk0>>

\* One iteration of download_parts: skip a part that is no attachment (or
\* fails the filter); otherwise attachments().get(), the decoding and the
\* write, inside the inner try. outcome: "saved", "nodata" (empty data
\* field), "raise" (any of the three raised).
DownloadPart(outcome) ==
    /\ cpc = "part"
    /\ LET part == msgs[pos[1]][pos[2]]
           path == FreePath(disk, part.filename)
           dl == IF ~Eligible(part, args.filename) \/ outcome = "nodata" THEN downloaded
                 ELSE IF outcome = "saved"
                 THEN Append(downloaded, SavedEntry(part.filename, path))
                 ELSE Append(downloaded, ErrorEntry(part.filename))
       IN /\ downloaded' = dl
          /\ attempts' = (IF Eligible(part, args.filename)
                          THEN Append(attempts, [at |-> pos, outcome |-> outcome])
                          ELSE attempts)
          /\ disk' = (IF Eligible(part, args.filename) /\ outcome = "saved"
                      THEN disk \cup {path} ELSE disk)
          /\ Continue(NextPos(msgs, pos[1], pos[2]), dl)
    /\ UNCHANGED <<auxVars, gmailVars, cmd, args, stderr, uncaught, apiErrors, msgs_to_trash, msgs,
                   disk0>>

Outcomes == {"saved", "nodata", "raise"}

NextCli ==
    \/ StartSummary
    \/ \E res \in {"found", "missing", "raise"} : LabelsList(res)
    \/ \E ok \in BOOLEAN : LabelsCreate(ok)
    \/ \E res \in {"some", "empty", "raise"} : SummaryList(res)
    \/ \E ok \in BOOLEAN : SummaryBatch(ok)
    \/ StartCleanup
    \/ \E res \in {"more", "last", "empty", "raise"} : CleanupList(res)
    \/ \E ok \in BOOLEAN : CleanupBatch(ok)
    \/ \E ids \in {"some", "empty", "badjson"}, create \in BOOLEAN : StartMove(ids, create)
    \/ \E ok \in BOOLEAN : MoveModify(ok)
    \/ \E c, l, a \in BOOLEAN : StartFiltersAdd(c, l, a)
    \/ \E ok \in BOOLEAN : FiltersCreate(ok)
    \/ StartDownload
    \/ StartSearchDownload
    \/ \E ok \in BOOLEAN : SearchList(ok)
    \/ \E ok \in BOOLEAN : MessageGet(ok)
    \/ \E outcome \in Outcomes : DownloadPart(outcome)
    \/ Exit

\* ------------------------------------------------------------------- Next
Next ==
    \/ \E n \in Names : EnsureAccount(n)
    \/ \E n \in Names : SetDefaultAccount(n)
    \/ \E n \in Names : RemoveAccount(n)
    \/ CheckSetup
    \/ \E a \in Names \cup {None} : GetClient(a)
    \/ \E n \in Names : MainAuthEnsure(n)
    \/ MainAuthConstruct
    \/ AuthLoad
    \/ \E ok \in BOOLEAN : AuthRefresh(ok)
    \/ AuthCredsCheck
    \/ \E ok \in BOOLEAN : AuthConsent(ok)
    \/ AuthSave
    \/ \E ok \in BOOLEAN : AuthBuild(ok)
    \/ \E res \in Emails \cup {"noemail", "raise"} : AuthProfile(res)
    \/ MainPrint
    \/ \E f \in TokenFiles : TokenExpires(f)

Spec == Init /\ [][Next]_vars

\* The state get_client() leaves behind in a fresh installation without
\* config.toml: the built-in default account, authenticated from a valid
\* cached token, its address fetched (e) or not (None)
AuthenticatedClient(e) ==
    [NewClientOp(FALSE, NoDoc, FALSE, None).client EXCEPT
        !.creds = CredsOf(FALSE, TRUE, 0), !.service = TRUE, !.account_email = e]

InitCli ==
    /\ cfgExists = FALSE /\ cfg = NoDoc
    /\ tokens = [f \in TokenFiles |-> IF f = <<SKILL_DIR, "tokens/default.json">>
                                      THEN CredsOf(FALSE, TRUE, 0) ELSE NoCreds]
    /\ dirs = {"/skill/tokens"}
    /\ envCred = FALSE /\ credFiles = {"default"}
    /\ pc = "idle" /\ inMain = FALSE
    /\ client \in {AuthenticatedClient(e) : e \in Emails \cup {None}}
    /\ auth = [NoAuth EXCEPT !.loaded = CredsOf(FALSE, TRUE, 0),
                             !.preToken = CredsOf(FALSE, TRUE, 0),
                             !.fetches = 1, !.outcome = "ok"]
    /\ last = [op |-> "authenticate", name |-> "default", ret |-> TRUE, wrote |-> FALSE,
               msg |-> "ok", listed |-> {}]
    /\ prev = [op |-> "client", name |-> None, ret |-> TRUE]
    /\ preCfg = [exists |-> FALSE, doc |-> NoDoc]
    /\ everAuth = TRUE /\ printed = None /\ status = NoStatus
    /\ CliIdle
    /\ AuxIdle

\* The command layer of email_cli.py, run after get_client() has returned
SpecCli == InitCli /\ [][NextCli]_vars

\* InitCli is a state of Spec: reached by get_client(None) without config.toml
InitCliReached ==
    /\ cfgExists = FALSE /\ pc = "idle" /\ client.service
    /\ client = AuthenticatedClient(client.account_email)
    /\ auth = [NoAuth EXCEPT !.loaded = CredsOf(FALSE, TRUE, 0),
                             !.preToken = CredsOf(FALSE, TRUE, 0),
                             !.fetches = 1, !.outcome = "ok"]
    /\ last = [op |-> "authenticate", name |-> "default", ret |-> TRUE, wrote |-> FALSE,
               msg |-> "ok", listed |-> {}]
    /\ prev = [op |-> "client", name |-> None, ret |-> TRUE]
    /\ preCfg = [exists |-> FALSE, doc |-> NoDoc]
    /\ dirs = {"/skill/tokens"}

\* ------------------------------------------- email_cli.py: batching loops
BatchOps == {"message_op", "cleanup", "list"}

\* batch_message_operation (trash / untrash), the trash loop of cmd_cleanup or
\* the detail loop of cmd_list is entered with n message ids; none of them
\* sends anything for an empty list
StartBatch(op) ==
    /\ bpc = "idle" /\ client.service
    /\ \E n \in 0..MaxIds :
         /\ bids' = [i \in 1..n |-> i]
         /\ bpc' = (IF n = 0 THEN "done" ELSE "loop")
    /\ bop' = op
    /\ bi' = 0 /\ batch' = <<>> /\ executed' = <<>> /\ bfailed' = 0
    /\ UNCHANGED <<gmailVars, cliVars, raceVars>>

\* One iteration of "for i, mid in enumerate(ids, 1)" (batch_message_operation)
\* or "for mid in msgs_to_trash" (cmd_cleanup): batch.add, then at a chunk
\* boundary batch.execute() and a new batch object. A raising execute ends
\* the routine (returned error payload, or the exception leaves cmd_cleanup).
AddStep(ok) ==
    /\ bpc = "loop" /\ bop \in {"message_op", "cleanup"}
    /\ LET i == bi + 1
           b == Append(batch, bids[i])
       IN /\ bi' = i
          /\ IF Flush(i, Len(bids))
             THEN /\ executed' = Append(executed, b)
                  /\ batch' = (IF ok THEN <<>> ELSE b)
                  /\ bfailed' = (IF ok THEN bfailed ELSE bfailed + 1)
                  /\ bpc' = (IF ~ok \/ i = Len(bids) THEN "done" ELSE "loop")
             ELSE /\ batch' = b
                  /\ bpc' = (IF i = Len(bids) THEN "done" ELSE "loop")
                  /\ UNCHANGED <<executed, bfailed>>
    /\ UNCHANGED <<gmailVars, cliVars, raceVars, bop, bids>>

\* One iteration of "for i in range(0, len(all_msgs), chunk_size)" of cmd_list:
\* a new batch holding the chunk, batch.execute() inside try, "continue" when
\* it raised
ListChunk(ok) ==
    /\ bpc = "loop" /\ bop = "list"
    /\ batch' = Chunk(bids, bi)
    /\ executed' = Append(executed, Chunk(bids, bi))
    /\ bfailed' = (IF ok THEN bfailed ELSE bfailed + 1)
    /\ bi' = bi + chunk_size
    /\ bpc' = (IF bi + chunk_size >= Len(bids) THEN "done" ELSE "loop")
    /\ UNCHANGED <<gmailVars, cliVars, raceVars, bop, bids>>

NextBatch ==
    \/ \E op \in BatchOps : StartBatch(op)
    \/ \E ok \in BOOLEAN : AddStep(ok)
    \/ \E ok \in BOOLEAN : ListChunk(ok)

\* The batching loops of email_cli.py, run with an authenticated client
SpecBatch == InitCli /\ [][NextBatch]_vars

\* ------------------------------------------- concurrent invocations
\* The four routines that rewrite config.toml, each "open for reading, load,
\* change, open for writing, dump" with nothing held in between
RaceOps == {"ensure_account", "set_default_account", "remove_account", "save_email"}

\* What routine q.op computes from the document it loaded
RaceResult(q) ==
    CASE q.op = "ensure_account" -> EnsureAccountOp(TRUE, q.doc, q.name)
      [] q.op = "set_default_account" -> SetDefaultAccountOp(TRUE, q.doc, q.name)
      [] q.op = "remove_account" -> RemoveAccountOp(TRUE, q.doc, q.name)
      [] OTHER -> [ret |-> TRUE, wrote |-> TRUE, msg |-> "saved",
                   doc |-> SaveEmailOp(TRUE, q.doc, q.name, q.email).doc]

\* tomlkit.dump(doc, f): the file becomes the writer's document
WriteBackMerged(onDisk, mine) ==
    [mine EXCEPT !.hasAccounts = mine.hasAccounts \/ onDisk.hasAccounts,
                 !.accounts = [n \in DOMAIN mine.accounts \cup DOMAIN onDisk.accounts |->
                                 IF n \in DOMAIN mine.accounts THEN mine.accounts[n]
                                 ELSE onDisk.accounts[n]]]

WriteBack(onDisk, mine) == mine

\* Invocation p enters routine op for account n: open(CONFIG_PATH, "r") and
\* tomlkit.load; a missing file raises and the routine ends
RaceLoad(p, op, n) ==
    /\ pc = "idle"
    /\ procs[p].at = "idle"
    /\ procs' = [procs EXCEPT ![p] =
                   [op |-> op, name |-> n,
                    email |-> IF op = "save_email" THEN "me@x" ELSE None,
                    at |-> IF cfgExists THEN "loaded" ELSE "done",
                    doc |-> cfg, ret |-> FALSE, wrote |-> FALSE]]
    /\ UNCHANGED <<gmailVars, cliVars, batchVars>>

\* Invocation p finishes: it changes the document it loaded and, unless the
\* routine returns early, dumps it over config.toml
RaceSave(p) ==
    /\ procs[p].at = "loaded"
    /\ LET r == RaceResult(procs[p]) IN
         /\ cfg' = (IF r.wrote THEN WriteBack(cfg, r.doc) ELSE cfg)
         /\ procs' = [procs EXCEPT ![p].at = "done", ![p].ret = r.ret,
                                   ![p].wrote = r.wrote]
    /\ UNCHANGED <<cfgExists, tokens, dirs, credFiles, envCred, pc, inMain, client, auth,
                   last, prev, preCfg, everAuth, printed, status, cliVars, batchVars>>

NextRace ==
    \/ \E p \in Procs, op \in RaceOps, n \in Names : RaceLoad(p, op, n)
    \/ \E p \in Procs : RaceSave(p)

\* An installation with no token and no client-secret file
InitRace ==
    /\ Init
    /\ \A f \in TokenFiles : ~tokens[f].some
    /\ credFiles = {}

\* Two invocations run the config.toml routines at the same time
SpecRace == InitRace /\ [][NextRace]_vars

\* ------------------------------- installations with customised paths
\* config.toml gives the default account a token_path of its own, relative
\* or absolute; GMAIL_CREDENTIALS_PATH is set, and the client-secret file
\* exists either at the default place or where the variable points
InitPathDocs ==
    { [scopes |-> ScopeModify, default_account |-> None, hasAccounts |-> TRUE,
       accounts |-> [n \in {"default"} |-> [email |-> None, token_path |-> t]]] :
        t \in {"tokens/work.json", "/abs/t.json"} }

InitPaths ==
    /\ cfgExists = TRUE
    /\ cfg \in InitPathDocs
    /\ tokens \in { [f \in TokenFiles |->
                       IF f = ResolveTokenPath(cfg.accounts["default"].token_path)
                       THEN c ELSE NoCreds] :
                    c \in {NoCreds, CredsOf(FALSE, TRUE, 0), CredsOf(TRUE, TRUE, 0)} }
    /\ dirs = {Dirname(f) : f \in {g \in TokenFiles : tokens[g].some}}
    /\ envCred = TRUE
    /\ credFiles \in {{"default"}, {"env"}}
    /\ pc = "idle"
    /\ inMain = FALSE
    /\ client = NoClient
    /\ auth = NoAuth
    /\ last = NoOp
    /\ prev = Short(NoOp)
    /\ preCfg = [exists |-> cfgExists, doc |-> cfg]
    /\ everAuth = FALSE
    /\ printed = None
    /\ status = NoStatus
    /\ CliIdle
    /\ AuxIdle

SpecPaths == InitPaths /\ [][Next]_vars

\* ------------------------------------------------ a running call proceeds
\* The steps of authenticate(): straight-line code of one process, each
\* external call of which returns or raises
AuthNext ==
    \/ AuthLoad
    \/ \E ok \in BOOLEAN : AuthRefresh(ok)
    \/ AuthCredsCheck
    \/ \E ok \in BOOLEAN : AuthConsent(ok)
    \/ AuthSave
    \/ \E ok \in BOOLEAN : AuthBuild(ok)
    \/ \E res \in Emails \cup {"noemail", "raise"} : AuthProfile(res)

\* An installation whose config.toml holds the default account alone, with no
\* address recorded yet: either the client-secret file is missing (any token
\* file), or it is present beside an expired token file
InitFair ==
    /\ Init
    /\ cfgExists
    /\ cfg.default_account = None
    /\ DOMAIN cfg.accounts = {"default"}
    /\ cfg.accounts["default"].token_path = None
    /\ cfg.accounts["default"].email = None
    /\ (credFiles = {"default"}) => tokens[<<SKILL_DIR, "tokens/default.json">>].expired

SpecFair == InitFair /\ [][Next]_vars /\ WF_vars(AuthNext)

\* ----------------------------------------------------------------- claims
\* The accounts a listing shows before / after the last operation.
AccountsBefore == DOMAIN GetAvailableAccounts(preCfg.exists, preCfg.doc)
AccountsNow == DOMAIN GetAvailableAccounts(cfgExists, cfg)

\* C1: ensure_account is idempotent on an existing config file. Every call
\* returns True and leaves an entry for n; a call that finds n present (so the
\* second of two calls) writes nothing and leaves the whole document, n's
\* email and token_path included, as it was; a call that adds n gives it
\* token_path "tokens/<n>.json" and no email.
C1_EnsureAccountIdempotent ==
    (last.op = "ensure_account" /\ preCfg.exists) =>
        /\ last.ret
        /\ last.name \in DOMAIN cfg.accounts
        /\ last.name \in DOMAIN preCfg.doc.accounts =>
             (cfg = preCfg.doc /\ ~last.wrote)
        /\ last.name \notin DOMAIN preCfg.doc.accounts =>
             cfg.accounts[last.name] =
                [email |-> None, token_path |-> DefaultTokenPath(last.name)]
        /\ (prev.op = "ensure_account" /\ prev.name = last.name) =>
             (prev.ret /\ ~last.wrote /\ cfg = preCfg.doc)

\* Two calls ensure_account(n) in a row on an account that has an email.
C1_Witness ==
    /\ last.op = "ensure_account" /\ prev.op = "ensure_account"
    /\ prev.name = last.name /\ preCfg.exists
    /\ cfg.accounts[last.name].email # None

\* C2: set_default_account(n) for n in accounts returns True and persists n as
\* gmail.default_account; GmailClient(account=None) right after it resolves to
\* n: account_name is n and account_config is n's entry.
C2_SetDefaultThenResolve ==
    /\ (last.op = "set_default_account" /\ last.name \in AccountsBefore) =>
          (last.ret /\ last.wrote /\ cfg.default_account = last.name)
    /\ (last.op = "client" /\ last.name = None
        /\ prev.op = "set_default_account" /\ prev.ret) =>
          /\ last.ret
          /\ pc # "idle" =>
               /\ client.account_name = prev.name
               /\ client.account_config = cfg.accounts[prev.name]

\* set_default_account("work") on a freshly ensured entry, then resolve(None).
C2_Witness ==
    /\ last.op = "client" /\ last.name = None /\ last.ret
    /\ prev.op = "set_default_account" /\ prev.ret /\ prev.name = "work"
    /\ pc = "auth_load"
    /\ client.account_name = "work"
    /\ client.account_config = [email |-> None, token_path |-> "tokens/work.json"]

\* C3: set_default_account(n) for n that is no key of accounts returns False,
\* creates no entry for n and leaves default_account and the file unchanged.
C3_SetDefaultUnknown ==
    (last.op = "set_default_account" /\ last.name \notin AccountsBefore) =>
        /\ ~last.ret
        /\ ~last.wrote
        /\ cfgExists = preCfg.exists
        /\ cfg = preCfg.doc
        /\ last.name \notin AccountsNow

\* An unknown name while another account is the default.
C3_Witness ==
    /\ last.op = "set_default_account" /\ last.name \notin AccountsBefore
    /\ preCfg.exists /\ preCfg.doc.default_account \in AccountsBefore

\* C4, as claimed: after remove_account(n) the listing never contains n, and
\* when n is not configured the call reports "not found" and changes nothing.
C4_AsClaimed ==
    last.op = "remove_account" =>
        /\ last.name \notin AccountsNow
        /\ last.name \notin AccountsBefore =>
             (last.msg = "not_found" /\ cfg = preCfg.doc /\ cfgExists = preCfg.exists)

\* C4, amended: after remove_account(n) the listing never contains n and the
\* call never raises; when n is no key of accounts of an existing config it
\* reports "not found", when config.toml does not exist it reports the open
\* error, and in both cases nothing is written.
C4_RemoveAccount ==
    last.op = "remove_account" =>
        /\ last.ret
        /\ last.name \notin AccountsNow
        /\ cfgExists = preCfg.exists
        /\ (preCfg.exists /\ last.name \notin AccountsBefore) =>
             (last.msg = "not_found" /\ ~last.wrote /\ cfg = preCfg.doc)
        /\ ~preCfg.exists =>
             (last.msg = "error" /\ ~last.wrote /\ cfg = preCfg.doc)
        /\ last.name \in AccountsBefore => last.msg = "removed"

\* An account that was listed has been removed while another one stays.
C4_Witness ==
    /\ last.op = "remove_account" /\ last.name \in AccountsBefore
    /\ last.msg = "removed" /\ AccountsNow # {}

\* C5, as claimed: once an authentication has succeeded, the default account
\* (gmail.default_account, "default" when unset) names a key of accounts.
C5_AsClaimed ==
    everAuth =>
        LET config == LoadConfig(cfgExists, cfg)
        IN AccountName(None, config) \in DOMAIN config.accounts

\* authenticate() has got past obtaining credentials (or has returned).
PastCredentials ==
    pc \in {"auth_save", "auth_build", "auth_profile", "main_print"} \/ auth.outcome = "ok"

\* The token file has been written by the running / last authenticate().
TokenSaved ==
    pc \in {"auth_build", "auth_profile", "main_print"} \/ auth.outcome = "ok"

\* C6, as claimed: a loaded token that is not valid and has no refresh token
\* leads to interactive consent and fresh credentials; the token file is never
\* written and the service never built with the loaded credentials.
C6_AsClaimed ==
    (auth.outcome # "none" /\ auth.loaded.some /\ ~Valid(auth.loaded)
     /\ ~auth.loaded.refresh_token /\ PastCredentials) =>
        /\ auth.consents = 1
        /\ Valid(client.creds)
        /\ client.creds # auth.loaded

\* C7: when the refresh of an expired token raises, self.creds is dropped and
\* authenticate() continues as with no token: it gets past the credentials
\* step only through one consent, with fresh valid credentials, which are what
\* it writes; the only exception that can leave it is the consent's own.
C7_RefreshFailure ==
    auth.refreshFailed =>
        /\ auth.refreshes = 1
        /\ pc = "auth_creds" => client.creds = NoCreds
        /\ PastCredentials =>
             /\ auth.consents = 1
             /\ Valid(client.creds)
             /\ client.creds # auth.loaded
        /\ TokenSaved => tokens[client.token_path] = client.creds
        /\ auth.outcome = "raised" => auth.consents = 1
        /\ auth.outcome = "exit1" =>
             \/ auth.consents = 0 /\ client.credentials_path \notin credFiles
             \/ auth.consents = 1 /\ auth.tokenWrites = 1

\* A failed refresh followed by a consent that succeeded.
C7_Witness ==
    /\ auth.refreshFailed /\ auth.outcome = "ok" /\ auth.consents = 1
    /\ tokens[client.token_path] = client.creds

\* C8: when the refresh succeeds no consent is run, the credentials are valid
\* and new, and once saved the token file holds them instead of the original
\* content, after exactly one write; a normal return has a built service.
C8_RefreshSuccess ==
    (auth.refreshes = 1 /\ ~auth.refreshFailed) =>
        /\ auth.consents = 0
        /\ pc # "auth_consent"
        /\ Valid(client.creds)
        /\ client.creds # auth.loaded
        /\ (TokenSaved \/ (auth.outcome = "exit1")) =>
             /\ tokens[client.token_path] = client.creds
             /\ tokens[client.token_path] # auth.preToken
             /\ auth.tokenWrites = 1
        /\ auth.outcome = "ok" => client.service
        /\ auth.outcome # "raised"

\* A refresh that succeeded, authenticate() returned.
C8_Witness ==
    /\ auth.refreshes = 1 /\ ~auth.refreshFailed /\ auth.outcome = "ok"
    /\ auth.preToken.expired /\ ~tokens[client.token_path].expired

\* authenticate() needed interactive consent: no token file, or refresh failed.
NeedsConsent == auth.outcome # "none" /\ (~auth.loaded.some \/ auth.refreshFailed)

\* C9: when consent is needed and the client-secret file does not exist, the
\* consent flow is never started and the call ends in sys.exit(1), which
\* main's "except Exception" does not catch.
C9_MissingCredentials ==
    /\ pc = "auth_consent" => client.credentials_path \in credFiles
    /\ auth.consents > 0 => client.credentials_path \in credFiles
    /\ (NeedsConsent /\ client.credentials_path \notin credFiles) =>
          \/ auth.outcome = "running" /\ pc = "auth_creds"
          \/ /\ auth.outcome = "exit1" /\ pc = "idle"
             /\ auth.consents = 0
             /\ printed # "Error"

\* The refresh failed, the client-secret file is missing, the process exited.
C9_Witness ==
    /\ NeedsConsent /\ auth.refreshFailed
    /\ client.credentials_path \notin credFiles
    /\ auth.outcome = "exit1" /\ inMain

\* C10, as claimed: without config.toml the configuration loaded is the
\* default document with an empty accounts mapping.
C10_AsClaimed ==
    (client.some /\ ~cfgExists) =>
        /\ client.config.scopes = <<"https://www.googleapis.com/auth/gmail.modify">>
        /\ client.config.default_account = "default"
        /\ DOMAIN client.config.accounts = {}

\* C10, amended: without config.toml loading does not fail; the document
\* substituted has scopes [gmail.modify], default_account "default" and the
\* single account "default" with token_path "tokens/default.json" (no email),
\* so GmailClient() and GmailClient("default") are constructed.
C10_LoadDefault ==
    /\ (client.some /\ ~cfgExists) =>
          /\ client.config.scopes = <<"https://www.googleapis.com/auth/gmail.modify">>
          /\ client.config.default_account = "default"
          /\ DOMAIN client.config.accounts = {"default"}
          /\ client.config.accounts["default"] =
                [email |-> None, token_path |-> "tokens/default.json"]
    /\ (last.op = "client" /\ ~preCfg.exists /\ last.name \in {None, "default"}) =>
          last.ret

\* GmailClient() constructed while config.toml does not exist.
C10_Witness ==
    /\ client.some /\ ~cfgExists /\ pc = "auth_load"
    /\ last.op = "client" /\ last.name = None

\* C11: resolving a name (explicit, or the default when none is given) that
\* has no entry in accounts raises the ValueError, whose message lists every
\* account name of the configuration; no client exists afterwards and the
\* failed resolution writes nothing to the config or the token files.
C11_State ==
    LET config == LoadConfig(preCfg.exists, preCfg.doc) IN
    /\ (last.op = "client" /\ ~last.ret) =>
          /\ last.msg = "ValueError"
          /\ AccountName(last.name, config) \notin DOMAIN config.accounts
          /\ last.listed = DOMAIN config.accounts
          /\ AccountsBefore \subseteq last.listed
          /\ pc = "idle" /\ ~client.some
          /\ cfg = preCfg.doc /\ cfgExists = preCfg.exists
    /\ (last.op = "client" /\ last.ret) =>
          AccountName(last.name, config) \in DOMAIN config.accounts

C11_Step ==
    (last'.op = "client" /\ ~last'.ret /\ (last' # last \/ prev' # prev)) =>
        UNCHANGED fileVars

C11_UnknownAccount == []C11_State /\ [][C11_Step]_vars

\* resolve("work") fails while "default" is configured and is listed.
C11_Witness ==
    /\ last.op = "client" /\ ~last.ret /\ last.name = "work"
    /\ preCfg.exists /\ last.listed = {"default"}

\* C12, as claimed: a successful authenticate() of an account without email
\* writes the config exactly once, one with an email never and fetches nothing.
C12_AsClaimed ==
    auth.outcome = "ok" =>
        IF client.account_config.email = None
        THEN auth.cfgWrites = 1
        ELSE auth.cfgWrites = 0 /\ auth.fetches = 0

\* C12, amended: a successful authenticate() of an account without email
\* fetches the profile once and writes the config at most once: exactly once,
\* recording the address under that account, when the fetch returned an
\* address and config.toml exists, and not at all otherwise; with an email
\* already populated it fetches nothing and writes nothing.
C12_EmailWrites ==
    auth.outcome = "ok" =>
        IF client.account_config.email = None
        THEN /\ auth.fetches = 1
             /\ auth.cfgWrites \in {0, 1}
             /\ auth.cfgWrites = 1 <=> (client.account_email # None /\ cfgExists)
             /\ auth.cfgWrites = 1 =>
                  cfg.accounts[client.account_name].email = client.account_email
             /\ (auth.cfgWrites = 0 /\ ~inMain) => cfg = preCfg.doc
        ELSE /\ auth.cfgWrites = 0 /\ auth.fetches = 0
             /\ client.account_email = client.account_config.email
             /\ ~inMain => cfg = preCfg.doc

\* "work" authenticated with no cached email: one write.
C12_Witness ==
    /\ auth.outcome = "ok" /\ client.account_name = "work"
    /\ client.account_config.email = None /\ auth.cfgWrites = 1

\* C13: a successful authenticate() that refreshed or ran consent has written
\* token_path exactly once, with the credentials it ends with; one that found
\* a valid token never refreshes, never runs consent and never writes.
C13_TokenWrites ==
    /\ (auth.outcome = "ok"
        /\ (auth.consents = 1 \/ (auth.refreshes = 1 /\ ~auth.refreshFailed))) =>
          (auth.tokenWrites = 1 /\ tokens[client.token_path] = client.creds)
    /\ (auth.outcome # "none" /\ Valid(auth.loaded)) =>
          /\ auth.tokenWrites = 0 /\ auth.refreshes = 0 /\ auth.consents = 0
          /\ tokens[client.token_path] = auth.preToken
          /\ pc \notin {"auth_refresh", "auth_creds", "auth_consent", "auth_save"}

\* A valid cached token, authenticate() returned.
C13_Witness ==
    auth.outcome = "ok" /\ Valid(auth.loaded) /\ auth.tokenWrites = 0

\* The token file GmailClient(n).authenticate() uses for a configured n.
ClientTokenFile(n) == NewClientOp(cfgExists, cfg, envCred, n).client.token_path

\* C14: check_setup() reports ready exactly when the credentials file exists
\* and some listed account is authenticated; every configured account is
\* listed exactly once, authenticated exactly when its token file exists.
C14_CheckSetupReady ==
    status.done =>
        /\ status.credentials_exists = ("default" \in credFiles)
        /\ status.ready =
              (status.credentials_exists /\ \E a \in status.accounts : a.authenticated)
        /\ {a.name : a \in status.accounts} = AccountsNow
        /\ \A n \in AccountsNow :
              /\ Cardinality({a \in status.accounts : a.name = n}) = 1
              /\ \A a \in status.accounts :
                    a.name = n =>
                       /\ a.authenticated = tokens[ClientTokenFile(n)].some
                       /\ a.email = cfg.accounts[n].email

\* Ready with two accounts listed, one of them not authenticated.
C14_Witness ==
    /\ status.done /\ status.ready /\ Cardinality(status.accounts) = 2
    /\ \E a \in status.accounts : ~a.authenticated

\* C15: check_setup() always returns a status and changes no file or
\* directory; a missing config.toml gives config_exists false and no
\* accounts, so a fresh installation is reported not ready with no accounts.
C15_State ==
    status.done =>
        /\ last.op = "check_setup" /\ last.ret
        /\ status.config_exists = cfgExists
        /\ ~cfgExists => (status.accounts = {} /\ ~status.ready)
        /\ "default" \notin credFiles => ~status.ready

C15_Step == status'.done => UNCHANGED fileVars

C15_CheckSetupReadOnly == []C15_State /\ [][C15_Step]_vars

\* check_setup() on a fresh installation.
C15_Witness ==
    status.done /\ ~cfgExists /\ credFiles = {} /\ ~status.ready /\ status.accounts = {}

\* Every account other than n is as it was before the last operation.
OthersKept(n) ==
    \A m \in Names \ {n} :
        /\ m \in DOMAIN cfg.accounts <=> m \in DOMAIN preCfg.doc.accounts
        /\ m \in DOMAIN cfg.accounts => cfg.accounts[m] = preCfg.doc.accounts[m]

\* C16: each config mutation changes only its field. Adding n, removing n
\* and recording n's email keep every other account, scopes and
\* default_account (the email also n's token_path); set_default_account keeps
\* all accounts and scopes; an operation that did not write leaves the file.
C16_MutationFrame ==
    /\ (last.wrote /\ last.op = "ensure_account") =>
          /\ OthersKept(last.name)
          /\ cfg.scopes = preCfg.doc.scopes
          /\ cfg.default_account = preCfg.doc.default_account
    /\ (last.wrote /\ last.op = "set_default_account") =>
          /\ cfg.accounts = preCfg.doc.accounts
          /\ cfg.hasAccounts = preCfg.doc.hasAccounts
          /\ cfg.scopes = preCfg.doc.scopes
    /\ (last.wrote /\ last.op = "remove_account") =>
          /\ OthersKept(last.name)
          /\ cfg.scopes = preCfg.doc.scopes
          /\ cfg.default_account = preCfg.doc.default_account
    /\ (last.wrote /\ last.op = "authenticate") =>
          /\ OthersKept(last.name)
          /\ cfg.scopes = preCfg.doc.scopes
          /\ cfg.default_account = preCfg.doc.default_account
          /\ last.name \in DOMAIN preCfg.doc.accounts =>
                cfg.accounts[last.name].token_path =
                   preCfg.doc.accounts[last.name].token_path
    /\ (~last.wrote /\ ~inMain
        /\ last.op \in {"ensure_account", "set_default_account", "remove_account",
                        "authenticate"}) =>
          cfg = preCfg.doc

\* The email of "work" recorded while "default" has an email and a token_path
\* of its own.
C16_Witness ==
    /\ last.op = "authenticate" /\ last.wrote /\ last.name = "work"
    /\ "default" \in DOMAIN cfg.accounts
    /\ cfg.accounts["default"].email # None
    /\ cfg.accounts["work"].token_path # None

\* What a token file holds, apart from the passing of time.
Payload(c) == [some |-> c.some, gen |-> c.gen, refresh_token |-> c.refresh_token]

\* C17: remove_account leaves every token file as it is, and a token file is
\* created, replaced or deleted only by authenticate()'s write to the
\* token_path of the account being authenticated.
C17_Step ==
    /\ (last'.op = "remove_account" /\ (last' # last \/ prev' # prev)) =>
          tokens' = tokens
    /\ \A f \in TokenFiles :
          Payload(tokens'[f]) # Payload(tokens[f]) =>
             /\ pc = "auth_save"
             /\ f = client.token_path
             /\ f = SetupTokenFile(client.account_name, client.account_config)

C17_TokenFilesKept == [][C17_Step]_vars

\* An account whose token file exists has been removed.
C17_Witness ==
    /\ last.op = "remove_account" /\ last.msg = "removed"
    /\ tokens[SetupTokenFile(last.name, preCfg.doc.accounts[last.name])].some

\* ------------------------------------------------ claims on email_cli.py
\* C18 (as claimed): when a provider call made by a data-bearing command
\* raises, the exception does not leave the command, and the command's last
\* document on standard output is an error payload.
C18_AsClaimed ==
    (cpc = "done" /\ apiErrors > 0) =>
        /\ ~uncaught
        /\ Len(stdout) >= 1
        /\ stdout[Len(stdout)].status = "error"

\* C19 (as claimed): a finished data-bearing command has printed exactly one
\* result document on standard output, whatever path it took.
C19_AsClaimed ==
    (cpc = "done" /\ cmd # "none") => Len(stdout) = 1

\* The attachments a download command has to attempt: the parts with a
\* filename and an attachment id that pass the --filename filter
EligiblePositions ==
    {q \in {<<mi, pi>> : mi \in 1..Len(msgs), pi \in 1..MaxParts + 1} :
        /\ q[2] <= Len(msgs[q[1]])
        /\ Eligible(msgs[q[1]][q[2]], args.filename)}

\* What the attempts made must have left in the result list, in order: nothing
\* for an empty data field, otherwise the file name and whether it failed
RECURSIVE Annotations(_)
Annotations(att) ==
    IF att = <<>> THEN <<>>
    ELSE LET a == Head(att)
             rest == Annotations(Tail(att))
         IN IF a.outcome = "nodata" THEN rest
            ELSE <<[filename |-> msgs[a.at[1]][a.at[2]].filename,
                    failed |-> a.outcome = "raise"]>> \o rest

Annotated(dl) ==
    [i \in 1..Len(dl) |-> [filename |-> dl[i].filename, failed |-> dl[i].error # None]]

\* C20: when a download command finishes and every message-level call
\* succeeded, every eligible attachment was attempted exactly once whatever
\* happened to the others, the single result document has status success, it
\* lists each failed attachment with an error annotation and each saved one
\* with its path, and its count is the number of files that were written.
C20_PartialFailure ==
    (cmd \in {"download", "search_download"} /\ cpc = "done" /\ apiErrors = 0) =>
        /\ {attempts[i].at : i \in 1..Len(attempts)} = EligiblePositions
        /\ Len(attempts) = Cardinality(EligiblePositions)
        /\ Len(stdout) = 1
        /\ stdout[1].status = "success"
        /\ stdout[1].downloaded = downloaded
        /\ Annotated(downloaded) = Annotations(attempts)
        /\ \A i \in 1..Len(downloaded) :
             HasSavedAs(downloaded[i]) => downloaded[i].saved_as \in disk \ disk0
        /\ stdout[1].count = Cardinality({i \in 1..Len(attempts) :
                                             attempts[i].outcome = "saved"})
        /\ stdout[1].count = Cardinality(disk \ disk0)

\* cmd_download finished: the first attachment failed, the second was saved
C20_Witness ==
    /\ cmd = "download" /\ cpc = "done" /\ apiErrors = 0
    /\ Len(attempts) = 2
    /\ attempts[1].outcome = "raise" /\ attempts[2].outcome = "saved"
    /\ Len(stdout) = 1 /\ stdout[1].status = "success" /\ stdout[1].count = 1
    /\ Len(stdout[1].downloaded) = 2
    /\ stdout[1].downloaded[1].error # None

\* ------------------------------------------- further claims on gmail_client.py
AuthPcs == {"auth_load", "auth_refresh", "auth_creds", "auth_consent", "auth_save",
            "auth_build", "auth_profile"}

\* C22 (as claimed): with config.toml present and gmail.default_account naming
\* an account that accounts does not hold, constructing a client with no
\* account name succeeds and resolves to "default".
C22_AsClaimed ==
    ( /\ last.op = "client" /\ last.name = None
      /\ preCfg.exists
      /\ preCfg.doc.default_account # None
      /\ preCfg.doc.default_account \notin DOMAIN preCfg.doc.accounts )
    => (last.ret /\ client.account_name = "default")

C24_AuthOrder ==
    inMain =>
        /\ pc = "main_construct" =>
             /\ last.op = "ensure_account" /\ last.ret
             /\ cfgExists /\ last.name \in DOMAIN cfg.accounts
             /\ auth = NoAuth
        /\ pc \in AuthPcs =>
             /\ last.op = "ensure_account" /\ last.ret
             /\ client.account_name = last.name
             /\ cfgExists /\ client.account_name \in DOMAIN cfg.accounts
        /\ auth.outcome # "none" =>
             /\ cfgExists /\ client.account_name \in DOMAIN cfg.accounts
        /\ pc = "main_print" => auth.outcome = "ok"
        /\ printed \in Emails => (auth.outcome = "ok" /\ printed = client.account_email)
        /\ (last.op = "ensure_account" /\ ~last.ret) => (pc = "idle" /\ auth = NoAuth)

\* --auth work on a config without "work": added, authenticated, address printed
C24_Witness ==
    /\ inMain /\ pc = "idle" /\ auth.outcome = "ok"
    /\ last.op = "authenticate" /\ last.name = "work"
    /\ prev.op = "ensure_account" /\ prev.name = "work"
    /\ "work" \notin DOMAIN preCfg.doc.accounts
    /\ printed \in Emails

\* C28: config.toml is never created: if it did not exist before the last
\* operation it does not exist now and the operation wrote nothing (the three
\* mutators printed their error); ensure_account then returned False, and
\* main's --auth branch stopped there, with no client, no authenticate() and no
\* token write.
C28_NoConfigFile ==
    ~preCfg.exists =>
        /\ ~cfgExists
        /\ cfg = preCfg.doc
        /\ last.op \in {"ensure_account", "set_default_account", "remove_account"} =>
             (~last.wrote /\ last.msg = "error")
        /\ last.op \in {"ensure_account", "set_default_account"} => ~last.ret
        /\ (inMain \/ last.op = "ensure_account") =>
             /\ pc = "idle"
             /\ client = NoClient
             /\ auth = NoAuth
             /\ auth.tokenWrites = 0

\* --auth on a fresh installation: ensure_account failed, nothing else ran
C28_Witness ==
    /\ inMain /\ ~preCfg.exists /\ ~cfgExists
    /\ last.op = "ensure_account" /\ ~last.ret
    /\ pc = "idle" /\ auth = NoAuth

\* C29: when authenticate() has exited because no credentials were left and
\* the client-secret file is missing, the token file holds what it held when
\* the call started, and config.toml was not written by the call.
C29_ExitFrame ==
    (auth.outcome = "exit1" /\ ~client.creds.some) =>
        /\ client.credentials_path \notin credFiles
        /\ auth.tokenWrites = 0
        /\ tokens[client.token_path] = auth.preToken
        /\ auth.cfgWrites = 0
        /\ cfg = auth.preDoc
        /\ auth.consents = 0

\* the exit after a failed refresh of an existing token file
C29_Witness ==
    /\ auth.outcome = "exit1" /\ ~client.creds.some
    /\ auth.refreshFailed /\ auth.preToken.some
    /\ tokens[client.token_path] = auth.preToken

\* ------------------------------------------------ claims on batching
RECURSIVE Flat(_)
Flat(q) == IF q = <<>> THEN <<>> ELSE Head(q) \o Flat(Tail(q))

\* C25: no batch sent, and no batch under construction, holds more than 50
\* requests; and when a routine has finished with every batch.execute()
\* succeeding, the batches sent, one after the other, are exactly the input
\* ids: each id in one batch, none dropped, none twice.
C25_Batching ==
    /\ \A k \in 1..Len(executed) : Len(executed[k]) <= chunk_size
    /\ Len(batch) <= chunk_size
    /\ (bpc = "done" /\ bfailed = 0) => Flat(executed) = bids

\* 100 ids trashed: two full batches, no third
C25_Witness ==
    /\ bop = "message_op" /\ bpc = "done" /\ bfailed = 0
    /\ Len(bids) = 2 * chunk_size
    /\ Len(executed) = 2
    /\ Len(executed[1]) = chunk_size /\ Len(executed[2]) = chunk_size

\* ------------------------------------------------ claims on concurrency
\* C21: nothing coordinates two invocations. Whenever one of them saves, the
\* file becomes exactly what that invocation computed from the document it
\* loaded earlier, whatever another invocation has written in between; an
\* invocation that returns early leaves the file alone.
C21_Step ==
    \A p \in Procs :
        (procs[p].at = "loaded" /\ procs'[p].at = "done") =>
            IF procs'[p].wrote
            THEN cfg' = RaceResult(procs[p]).doc
            ELSE cfg' = cfg

C21_LostUpdate == [][C21_Step]_vars

\* Both invocations ran ensure_account, for different names, both returned
\* True having written, and the account p1 added is not in config.toml
C21_Witness ==
    /\ \A p \in Procs : /\ procs[p].op = "ensure_account" /\ procs[p].at = "done"
                        /\ procs[p].ret /\ procs[p].wrote
    /\ procs["p1"].name # procs["p2"].name
    /\ procs["p1"].name \notin DOMAIN cfg.accounts
    /\ procs["p2"].name \in DOMAIN cfg.accounts

\* ------------------------------------------------ claims on paths
\* C26: for every configured account, check_setup() reports "authenticated"
\* exactly when the file a client of that account would load exists; the
\* path a client holds is the one check_setup() computes from the same
\* table, under the installation directory unless it is absolute; and the
\* token authenticate() wrote is in that file.
C26_SameTokenPath ==
    /\ status.done =>
         \A a \in status.accounts :
            /\ a.name \in AccountsNow
            /\ a.authenticated = tokens[ClientTokenFile(a.name)].some
    /\ client.some =>
         /\ client.token_path =
               SetupTokenFile(client.account_name, client.account_config)
         /\ client.token_path[1] = (IF IsAbs(client.token_path[2]) THEN "" ELSE SKILL_DIR)
    /\ (auth.outcome = "ok" /\ auth.tokenWrites = 1) =>
         Payload(tokens[client.token_path]) = Payload(client.creds)

\* check_setup() finds the default account authenticated through its custom
\* token_path, while the path tokens/default.json holds nothing
C26_Witness ==
    /\ status.done
    /\ "default" \in AccountsNow
    /\ cfg.accounts["default"].token_path \notin {None, DefaultTokenPath("default")}
    /\ \E a \in status.accounts : a.name = "default" /\ a.authenticated
    /\ ~tokens[ResolveTokenPath(DefaultTokenPath("default"))].some

\* C27 (as claimed): check_setup() reports credentials_exists for the file
\* authenticate() needs: where authenticate() has exited for want of the
\* client-secret file, check_setup() reports false, and where it has reached
\* the consent flow, check_setup() reports true.
C27_AsClaimed ==
    LET reported == CheckSetupOp(cfgExists, cfg, tokens, credFiles).credentials_exists IN
    /\ (auth.outcome = "exit1" /\ ~client.creds.some) => ~reported
    /\ pc = "auth_consent" => reported
    /\ status.done => status.credentials_exists = (CredentialsPath(envCred) \in credFiles)

\* ------------------------------------------------ claims on termination
\* C30: a call of authenticate() never makes more than one refresh attempt
\* or more than one consent flow, and every call that has started ends:
\* it returns, raises or exits, whatever the refresh and the consent did.
C30_Terminates ==
    /\ [](auth.refreshes <= 1 /\ auth.consents <= 1)
    /\ (pc = "auth_load") ~> (pc \notin AuthPcs /\ auth.outcome \in {"ok", "raised", "exit1"})

\* a call that went through a failed refresh and then the consent flow, and
\* returned
C30_Witness ==
    /\ auth.outcome = "ok" /\ auth.refreshes = 1 /\ auth.refreshFailed
    /\ auth.consents = 1

====
